---- MODULE Spec2Model ----
(***************************************************************************)
(* Model of the private panel's network layer                              *)
(* (src/api/views/private/src/assets/scripts/lib.ts): the EventManager    *)
(* publish/subscribe registry and the WebsocketNetwork session that owns   *)
(* one of them, together with the browser WebSocket objects the session    *)
(* creates.                                                                *)
(***************************************************************************)
EXTENDS Integers, Sequences, FiniteSets, TLC

(* ------------------------------ bounds --------------------------------- *)
\* registrations held by the registry in the registry-only specification
MaxListeners == 3
\* registrations held by the registry in the session specification
MaxSessionListeners == 1
\* WebSocket objects one session creates
MaxTransports == 2

(* ------------------------------ inputs --------------------------------- *)
\* event names used on the bus
Names == {"connection_refused", "x"}
\* event names the session's collaborators listen to
SessionNames == {"connection_refused"}
\* callbacks registered on the session's bus
SessionCallbacks == {"f", "boom"}

\* callbacks by what they do when invoked: "f" and "g" return, "boom"
\* throws, "once" unregisters itself from the event it is invoked for
Callbacks == {"f", "g", "boom", "once"}

\* (id, passwd) pairs handed to connect
Credentials == {<<"a", "p">>, <<"", "q">>, <<"b", "">>}

\* the OpCode enumeration
Connected == 0
Heartbeat == 1
CredentialsOp == 2
TransmitToken == 3

\* op values that occur in inbound frames: the gateway's members of the
\* enumeration and one value outside it
OpValues == {Connected, Heartbeat, TransmitToken, 4}
\* op values tried in frames that lack their payload
BareOpValues == {Connected}
NoOp == -1

\* a decoded frame: the set of the two
\* properties it owns, and the value of op when it owns one
Shapes ==
    {[own |-> S, op |-> o] : S \in SUBSET {"op", "payload"}, o \in OpValues \cup {NoOp}}
Frames ==
    {m \in Shapes : /\ (m.op = NoOp) <=> ("op" \notin m.own)
                    /\ m.own = {"op"} => m.op \in BareOpValues}

\* a MessageEvent as the browser builds it: the frame is in data, the event
\* object itself owns neither op nor payload
MessageEvent(frame) == [own |-> {}, op |-> NoOp, data |-> frame]

(* ------------------------------- state --------------------------------- *)
VARIABLES
    events,      \* EventManager.events: name -> sequence of callbacks
    connection,  \* WebsocketNetwork.connection: 0 (null) or index in sockets
    sockets,     \* the WebSocket objects created so far, in creation order
    connected,   \* the .connection element carries the class "connected"
    ui,          \* the connection form: its inputs, button and error notifier
    last         \* what the last operation was and what it did

vars == <<events, connection, sockets, connected, ui, last>>

(* --------------------------- EventManager ------------------------------ *)
\* Array.prototype.indexOf, 1-based, 0 when absent
indexOf(arr, cb) ==
    IF \E i \in 1..Len(arr) : arr[i] = cb
    THEN CHOOSE i \in 1..Len(arr) : arr[i] = cb /\ \A j \in 1..(i-1) : arr[j] # cb
    ELSE 0

\* Array.prototype.splice(index, 1)
splice(arr, i) == [k \in 1..(Len(arr)-1) |-> IF k < i THEN arr[k] ELSE arr[k+1]]

has(ev, name) == name \in DOMAIN ev

put(ev, name, arr) == [n \in DOMAIN ev \cup {name} |-> IF n = name THEN arr ELSE ev[n]]

on(ev, name, cb) ==
    LET ev1 == IF ~has(ev, name) THEN put(ev, name, <<>>) ELSE ev
    IN  put(ev1, name, Append(ev1[name], cb))

\* off that splices without testing the index: splice(-1, 1) removes the
\* last element
offUnchecked(ev, name, cb) ==
    IF has(ev, name)
    THEN LET index == indexOf(ev[name], cb)
         IN  IF index # 0 THEN put(ev, name, splice(ev[name], index))
             ELSE IF ev[name] # <<>> THEN put(ev, name, splice(ev[name], Len(ev[name])))
             ELSE ev
    ELSE ev

off(ev, name, cb) ==
    IF has(ev, name)
    THEN LET index == indexOf(ev[name], cb)
         IN  IF index # 0 THEN put(ev, name, splice(ev[name], index)) ELSE ev
    ELSE ev

\* one callback invoked by emit(name): the registry afterwards and the
\* exception the callback raised, "" when it returned
invoke(ev, name, cb) ==
    CASE cb = "boom" -> [events |-> ev, error |-> "boom"]
      [] cb = "once" -> [events |-> off(ev, name, cb), error |-> ""]
      [] OTHER       -> [events |-> ev, error |-> ""]

\* Array.prototype.forEach over the live array events[name]: the length is
\* read once, an index the array no longer has is skipped, an exception
\* leaves the loop
RECURSIVE forEach(_, _, _, _, _)
forEach(ev, name, k, len, calls) ==
    IF k > len THEN [events |-> ev, calls |-> calls, error |-> ""]
    ELSE IF k > Len(ev[name]) THEN forEach(ev, name, k + 1, len, calls)
    ELSE LET cb == ev[name][k]
             r  == invoke(ev, name, cb)
         IN  IF r.error # ""
             THEN [events |-> r.events, calls |-> Append(calls, cb), error |-> r.error]
             ELSE forEach(r.events, name, k + 1, len, Append(calls, cb))

\* emit that creates the entry of a name it does not know, as on does
emitCreates(ev, name) ==
    LET ev1 == IF ~has(ev, name) THEN put(ev, name, <<>>) ELSE ev
        r   == forEach(ev1, name, 1, Len(ev1[name]), <<>>)
    IN  [events |-> r.events, calls |-> r.calls, error |-> r.error, emitted |-> <<name>>]

\* emit(name): the registry afterwards, the callbacks invoked in order, the
\* exception that left the loop, and the emission itself
emit(ev, name) ==
    IF has(ev, name)
    THEN LET r == forEach(ev, name, 1, Len(ev[name]), <<>>)
         IN  [events |-> r.events, calls |-> r.calls, error |-> r.error,
              emitted |-> <<name>>]
    ELSE [events |-> ev, calls |-> <<>>, error |-> "", emitted |-> <<name>>]

(* ----------------------------- WebSocket ------------------------------- *)
\* JSON.stringify({op: 2, payload: {id, passwd}}): keys and values in the
\* order of the text
Handshake(id, passwd) == <<"op", CredentialsOp, "payload", <<"id", id, "passwd", passwd>>>>

\* WebSocket.send: throws while CONNECTING, queues the data while OPEN,
\* discards it once CLOSING or CLOSED
send(socks, c, data) ==
    CASE socks[c].readyState = "CONNECTING" ->
            [sockets |-> socks, error |-> "InvalidStateError"]
      [] socks[c].readyState = "OPEN" ->
            [sockets |-> [socks EXCEPT ![c].sent = Append(@, data)], error |-> ""]
      [] OTHER -> [sockets |-> socks, error |-> ""]

(* -------------------------- WebsocketNetwork --------------------------- *)
onopen(conn, socks, id, passwd) ==
    IF conn # 0
    THEN send(socks, conn, Handshake(id, passwd))
    ELSE [sockets |-> socks, error |-> "Websocket is null"]

\* onmessage that switches on the op of the decoded frame before it
\* validates the shape
onmessageSwitchFirst(message, box) ==
    IF message.data.op = Connected
    THEN [error |-> "", connected |-> TRUE]
    ELSE IF "op" \notin message.own \/ "payload" \notin message.own
         THEN [error |-> "Invalid websocket message received", connected |-> box]
         ELSE [error |-> "", connected |-> box]

\* onmessage(message): the exception it raised and the class of the
\* .connection box afterwards
onmessage(message, box) ==
    IF "op" \notin message.own \/ "payload" \notin message.own
    THEN [error |-> "Invalid websocket message received", connected |-> box]
    ELSE IF message.op = Connected
         THEN [error |-> "", connected |-> TRUE]
         ELSE [error |-> "", connected |-> box]

\* onerror that logs the error and publishes nothing
onerrorSilent(ev) == [events |-> ev, calls |-> <<>>, error |-> "", emitted |-> <<>>]

onerror(ev) == emit(ev, "connection_refused")

\* the catch block of connect
connectCatch(ev) == emit(ev, "connection_refused")

(* ------------------------------ history -------------------------------- *)
NoMsg == [own |-> {}, op |-> NoOp]

\* the record of an operation: which one, on which socket (and the socket's
\* readyState before), with which arguments, the exception that left it,
\* the events it emitted, the callbacks it invoked, the listeners of the
\* emitted name before, and the number of WebSocket constructions
Idle ==
    [op |-> "init", t |-> 0, was |-> "", name |-> "", cb |-> "", id |-> "", passwd |-> "",
     frame |-> NoMsg, error |-> "", emits |-> <<>>, calls |-> <<>>, before |-> <<>>,
     opened |-> 0]

\* the form as the template renders it; clicked and emitted describe the
\* last step: whether it was a click on the button and the payloads of the
\* connect_websocket events it emitted
FormIdle ==
    [id |-> <<>>, passwd |-> <<>>, connecting |-> FALSE, visible |-> FALSE,
     text |-> "Des champs sont manquants", clicked |-> FALSE, emitted |-> <<>>]

Init ==
    /\ events = <<>>
    /\ connection = 0
    /\ sockets = <<>>
    /\ connected = FALSE
    /\ ui = FormIdle
    /\ last = Idle

(* ------------------------------ actions -------------------------------- *)
Registered(ev) ==
    LET RECURSIVE sum(_)
        sum(S) == IF S = {} THEN 0
                  ELSE LET n == CHOOSE n \in S : TRUE IN Len(ev[n]) + sum(S \ {n})
    IN  sum(DOMAIN ev)

listeners(ev, name) == IF has(ev, name) THEN ev[name] ELSE <<>>

On(name, cb) ==
    /\ events' = on(events, name, cb)
    /\ last' = [Idle EXCEPT !.op = "on", !.name = name, !.cb = cb]
    /\ UNCHANGED <<connection, sockets, connected>>

Off(name, cb) ==
    /\ events' = off(events, name, cb)
    /\ last' = [Idle EXCEPT !.op = "off", !.name = name, !.cb = cb,
                            !.before = listeners(events, name)]
    /\ UNCHANGED <<connection, sockets, connected>>

Emit(name) ==
    LET r == emit(events, name)
    IN  /\ events' = r.events
        /\ last' = [Idle EXCEPT !.op = "emit", !.name = name, !.error = r.error,
                                !.emits = r.emitted, !.calls = r.calls,
                                !.before = listeners(events, name)]
        /\ UNCHANGED <<connection, sockets, connected>>

\* the session's handle points at a socket that failed while CONNECTING
RefusedConnecting == connection # 0 /\ sockets[connection].failed = "CONNECTING"

\* connect that keeps a handle it already holds
ConnectKeepsHandle(id, passwd) ==
    /\ sockets' = Append(sockets, [readyState |-> "CONNECTING", id |-> id,
                                   passwd |-> passwd, sent |-> <<>>, failed |-> "",
                                   retry |-> RefusedConnecting])
    /\ connection' = IF connection = 0 THEN Len(sockets) + 1 ELSE connection
    /\ last' = [Idle EXCEPT !.op = "connect", !.t = Len(sockets) + 1,
                            !.id = id, !.passwd = passwd, !.opened = 1]
    /\ UNCHANGED <<events, connected>>

\* connect that builds a new EventManager for the new socket
ConnectNewBus(id, passwd) ==
    /\ sockets' = Append(sockets, [readyState |-> "CONNECTING", id |-> id,
                                   passwd |-> passwd, sent |-> <<>>, failed |-> "",
                                   retry |-> RefusedConnecting])
    /\ connection' = Len(sockets) + 1
    /\ events' = <<>>
    /\ last' = [Idle EXCEPT !.op = "connect", !.t = Len(sockets) + 1,
                            !.id = id, !.passwd = passwd, !.opened = 1]
    /\ UNCHANGED connected

\* connect(id, passwd, host) when new WebSocket(url) returns; the socket
\* keeps the arguments in the closure of its "open" listener
Connect(id, passwd) ==
    /\ sockets' = Append(sockets, [readyState |-> "CONNECTING", id |-> id,
                                   passwd |-> passwd, sent |-> <<>>, failed |-> "",
                                   retry |-> RefusedConnecting])
    /\ connection' = Len(sockets) + 1
    /\ last' = [Idle EXCEPT !.op = "connect", !.t = Len(sockets) + 1,
                            !.id = id, !.passwd = passwd, !.opened = 1]
    /\ UNCHANGED <<events, connected>>

\* connect(id, passwd, host) when new WebSocket(url) throws
ConnectThrows(id, passwd) ==
    LET r == connectCatch(events)
    IN  /\ events' = r.events
        /\ last' = [Idle EXCEPT !.op = "connect_throws", !.id = id, !.passwd = passwd,
                                !.error = r.error, !.emits = r.emitted,
                                !.calls = r.calls,
                                !.before = listeners(events, "connection_refused"),
                                !.opened = 1]
        /\ UNCHANGED <<connection, sockets, connected>>

\* socket t fires "open"
Open(t) ==
    /\ sockets[t].readyState = "CONNECTING"
    /\ LET opened == [sockets EXCEPT ![t].readyState = "OPEN"]
           r == onopen(connection, opened, sockets[t].id, sockets[t].passwd)
       IN  /\ sockets' = r.sockets
           /\ last' = [Idle EXCEPT !.op = "open", !.t = t, !.was = "CONNECTING",
                                   !.id = sockets[t].id, !.passwd = sockets[t].passwd,
                                   !.error = r.error]
    /\ UNCHANGED <<events, connection, connected>>

\* an error handler that reconnects with the credentials of the failed socket
ErrorReconnects(t) ==
    /\ sockets[t].readyState \in {"CONNECTING", "OPEN"}
    /\ LET r == onerror(events)
       IN  /\ events' = r.events
           /\ last' = [Idle EXCEPT !.op = "error", !.t = t, !.was = sockets[t].readyState,
                                   !.error = r.error, !.emits = r.emitted,
                                   !.calls = r.calls,
                                   !.before = listeners(events, "connection_refused"),
                                   !.opened = 1]
    /\ Len(sockets) < MaxTransports + 1
    /\ sockets' = Append([sockets EXCEPT ![t].readyState = "CLOSED",
                                         ![t].failed = sockets[t].readyState],
                         [readyState |-> "CONNECTING", id |-> sockets[t].id,
                          passwd |-> sockets[t].passwd, sent |-> <<>>, failed |-> "",
                          retry |-> FALSE])
    /\ connection' = Len(sockets) + 1
    /\ UNCHANGED connected

\* socket t fires "error" and closes
Error(t) ==
    /\ sockets[t].readyState \in {"CONNECTING", "OPEN"}
    /\ LET r == onerror(events)
       IN  /\ events' = r.events
           /\ last' = [Idle EXCEPT !.op = "error", !.t = t, !.was = sockets[t].readyState,
                                   !.error = r.error, !.emits = r.emitted,
                                   !.calls = r.calls,
                                   !.before = listeners(events, "connection_refused")]
    /\ sockets' = [sockets EXCEPT ![t].readyState = "CLOSED",
                                  ![t].failed = sockets[t].readyState]
    /\ UNCHANGED <<connection, connected>>

\* socket t fires "message" for an inbound frame
Deliver(t, frame) ==
    /\ sockets[t].readyState = "OPEN"
    /\ LET r == onmessage(MessageEvent(frame), connected)
       IN  /\ connected' = r.connected
           /\ last' = [Idle EXCEPT !.op = "deliver", !.t = t, !.was = "OPEN",
                                   !.frame = frame, !.error = r.error]
    /\ UNCHANGED <<events, connection, sockets>>

(* --------------------------- connection form --------------------------- *)
\* characters typed into the inputs
Letters == {"a", "B"}
LineTerminators == {"\n"}

\* values of the id and passwd inputs, as sequences of characters
FormIds == {<<>>, <<"a", "B">>, <<"a", "1">>}
FormPasswds == {<<>>, <<"p">>}

\* /^[a-zA-Z]*$/ in place of /^[a-zA-Z]+$/
testIdStar(id) == \A i \in 1..Len(id) : id[i] \in Letters

\* (/^[a-zA-Z]+$/).test(id)
testId(id) == Len(id) >= 1 /\ \A i \in 1..Len(id) : id[i] \in Letters

\* (/^.+$/).test(passwd)
testPasswd(passwd) ==
    Len(passwd) >= 1 /\ \A i \in 1..Len(passwd) : passwd[i] \notin LineTerminators

\* the listener App registers for 'connection_refused'
AppListener == "app"

\* the form after the callbacks of an emit have run
afterRefused(form, calls) ==
    IF \E i \in 1..Len(calls) : calls[i] = AppListener
    THEN [form EXCEPT !.connecting = FALSE, !.text = "Cannot connect to the API",
                      !.visible = TRUE]
    ELSE form

\* the form at the start of a step that is not a click
noClick(form) == [form EXCEPT !.clicked = FALSE, !.emitted = <<>>]

\* the state after App's data(): the session is built and the listener is
\* registered
InitForm ==
    /\ events = on(<<>>, "connection_refused", AppListener)
    /\ connection = 0
    /\ sockets = <<>>
    /\ connected = FALSE
    /\ ui = FormIdle
    /\ last = Idle

\* the user edits the two inputs
Type(id, passwd) ==
    /\ ui' = [noClick(ui) EXCEPT !.id = id, !.passwd = passwd]
    /\ last' = [Idle EXCEPT !.op = "type"]
    /\ UNCHANGED <<events, connection, sockets, connected>>

\* a click on the button: the component's connect(), and for accepted
\* inputs App's connect_websocket, which calls websocket.connect
Click ==
    LET closed == [ui EXCEPT !.visible = FALSE, !.clicked = TRUE, !.emitted = <<>>]
    IN  \/ /\ ~testId(ui.id)
           /\ ui' = [closed EXCEPT !.text = "Cet identifiant est invalide.",
                                   !.visible = TRUE]
           /\ last' = [Idle EXCEPT !.op = "click"]
           /\ UNCHANGED <<events, connection, sockets, connected>>
        \/ /\ testId(ui.id)
           /\ ~testPasswd(ui.passwd)
           /\ ui' = [closed EXCEPT !.text = "Un mot de passe est requis",
                                   !.visible = TRUE]
           /\ last' = [Idle EXCEPT !.op = "click"]
           /\ UNCHANGED <<events, connection, sockets, connected>>
        \/ /\ testId(ui.id)
           /\ testPasswd(ui.passwd)
           /\ Len(sockets) < MaxTransports
           /\ Connect(ui.id, ui.passwd)
           /\ ui' = [closed EXCEPT !.connecting = TRUE,
                                   !.emitted = <<[id |-> ui.id, passwd |-> ui.passwd]>>]
        \/ /\ testId(ui.id)
           /\ testPasswd(ui.passwd)
           /\ ConnectThrows(ui.id, ui.passwd)
           /\ ui' = afterRefused(
                      [closed EXCEPT !.connecting = TRUE,
                                     !.emitted = <<[id |-> ui.id, passwd |-> ui.passwd]>>],
                      last'.calls)

\* socket events while the form is shown
FormOpen(t) == Open(t) /\ ui' = noClick(ui)

FormError(t) == Error(t) /\ ui' = afterRefused(noClick(ui), last'.calls)

(* --------------------------- specifications ---------------------------- *)
\* the session with its bus
Next ==
    \/ \E c \in Credentials :
          Len(sockets) < MaxTransports /\ Connect(c[1], c[2]) /\ UNCHANGED ui
    \/ \E c \in Credentials : ConnectThrows(c[1], c[2]) /\ UNCHANGED ui
    \/ \E t \in DOMAIN sockets : Open(t) /\ UNCHANGED ui
    \/ \E t \in DOMAIN sockets : Error(t) /\ UNCHANGED ui
    \/ \E t \in DOMAIN sockets, frame \in Frames : Deliver(t, frame) /\ UNCHANGED ui
    \/ \E name \in SessionNames, cb \in SessionCallbacks :
          Registered(events) < MaxSessionListeners /\ On(name, cb) /\ UNCHANGED ui
    \/ \E name \in SessionNames, cb \in SessionCallbacks : Off(name, cb) /\ UNCHANGED ui

Spec == Init /\ [][Next]_vars

\* the registry alone
NextBus ==
    \/ \E name \in Names, cb \in Callbacks :
          Registered(events) < MaxListeners /\ On(name, cb) /\ UNCHANGED ui
    \/ \E name \in Names, cb \in Callbacks : Off(name, cb) /\ UNCHANGED ui
    \/ \E name \in Names : Emit(name) /\ UNCHANGED ui

SpecBus == Init /\ [][NextBus]_vars

\* the connection form driving the session
NextForm ==
    \/ \E id \in FormIds, passwd \in FormPasswds : Type(id, passwd)
    \/ Click
    \/ \E t \in DOMAIN sockets : FormOpen(t)
    \/ \E t \in DOMAIN sockets : FormError(t)

SpecForm == InitForm /\ [][NextForm]_vars

TypeOK ==
    /\ DOMAIN events \subseteq Names
    /\ \A n \in DOMAIN events :
          \A i \in 1..Len(events[n]) : events[n][i] \in Callbacks \cup {AppListener}
    /\ connection \in 0..Len(sockets)
    /\ connected \in BOOLEAN

(* ------------------------------ claims --------------------------------- *)
Count(seq, x) == Cardinality({i \in 1..Len(seq) : seq[i] = x})
Range(seq) == {seq[i] : i \in 1..Len(seq)}
Live == {t \in DOMAIN sockets : sockets[t].readyState \in {"CONNECTING", "OPEN"}}
Malformed(frame) == "op" \notin frame.own \/ "payload" \notin frame.own
EmptyCredentials == last.id = "" \/ last.passwd = ""

\* C1 (as claimed): emit(name) invokes exactly the callbacks registered for
\* name when it is called, once per registration, in registration order.
C1_EmitInvokesRegistered ==
    last.op = "emit" => last.calls = last.before

\* C2: every failed connection attempt (the constructor throwing inside
\* connect, or a socket's error notification) makes the session emit
\* 'connection_refused' exactly once.
C2_OneRefusalPerFailure ==
    last.op \in {"connect_throws", "error"} =>
        /\ Count(last.emits, "connection_refused") = 1
        /\ Len(last.emits) = 1

C2_Witness ==
    /\ last.op = "error"
    /\ last.was = "CONNECTING"
    /\ last.emits = <<"connection_refused">>
    /\ last.calls # <<>>

\* C3 (as claimed): at most one socket created by the session is live
\* (CONNECTING or OPEN) in any state.
C3_AtMostOneLive ==
    Cardinality(Live) <= 1

\* C4 (as claimed): connect with an empty id or an empty passwd fails with
\* InvalidCredentials and constructs no socket.
C4_EmptyCredentialsRejected ==
    (last.op \in {"connect", "connect_throws"} /\ EmptyCredentials) =>
        /\ last.error = "InvalidCredentials"
        /\ last.opened = 0
        /\ last.t = 0

\* C5 (as claimed): a socket that has opened carries exactly one frame sent
\* by the session, the handshake with the id and passwd of the connect call
\* that created the socket.
C5_HandshakeOnOpen ==
    \A t \in DOMAIN sockets :
        sockets[t].readyState = "OPEN" =>
            sockets[t].sent = <<Handshake(sockets[t].id, sockets[t].passwd)>>

\* C6 (as claimed): an inbound frame with op = CONNECTED and a payload,
\* received on an open socket, sets the connection indicator and emits
\* exactly one 'connected' event.
C6_ConnectedFrameEstablishes ==
    (last.op = "deliver" /\ last.frame.op = Connected /\ "payload" \in last.frame.own) =>
        /\ connected
        /\ last.emits = <<"connected">>

C8_ThrowDoesNotStopEmit ==
    (last.op = "emit" /\ last.error # "" /\ "once" \notin Range(last.before)) =>
        \A i \in 1..Len(last.before) : i <= Len(last.calls) /\ last.calls[i] = last.before[i]

\* C9: once the socket the session holds has failed while CONNECTING, a
\* connect call creates a fresh CONNECTING socket and makes it the session's
\* handle, and when that socket opens as the session's handle the session
\* sends on it exactly the handshake of that connect call.
C9_RetryAfterRefusal ==
    [][/\ (RefusedConnecting /\ last'.op = "connect") =>
              /\ Len(sockets') = Len(sockets) + 1
              /\ connection' = Len(sockets')
              /\ sockets'[connection'].readyState = "CONNECTING"
              /\ sockets'[connection'].sent = <<>>
              /\ sockets'[connection'].id = last'.id
              /\ sockets'[connection'].passwd = last'.passwd
       /\ (last'.op = "open" /\ sockets[last'.t].retry /\ connection = last'.t) =>
              /\ sockets'[last'.t].readyState = "OPEN"
              /\ sockets'[last'.t].sent =
                     <<Handshake(sockets[last'.t].id, sockets[last'.t].passwd)>>
              /\ last'.error = ""]_vars

C9_Witness ==
    /\ last.op = "open"
    /\ sockets[last.t].retry
    /\ connection = last.t
    /\ sockets[last.t].sent = <<Handshake(sockets[last.t].id, sockets[last.t].passwd)>>

\* C10 (as claimed): an error on the session's socket after it has opened
\* emits 'connection_refused' and leaves the session without a handle.
C10_ErrorTearsDownHandle ==
    (last.op = "error" /\ last.was = "OPEN" /\ last.t = connection) =>
        /\ last.emits = <<"connection_refused">>
        /\ connection = 0

C12_DuplicatesKept ==
    /\ last.op = "emit" =>
           \A cb \in Callbacks :
               Count(last.before, cb) >= 2 => Count(last.calls, cb) = Count(last.before, cb)
    /\ (last.op = "off" /\ last.cb \in Range(last.before)) =>
           listeners(events, last.name) = splice(last.before, indexOf(last.before, last.cb))

C14_OtherOpsIgnored ==
    (last.op = "deliver" /\ ~Malformed(last.frame) /\ last.frame.op # Connected) =>
        /\ last.error = ""
        /\ last.emits = <<>>
        /\ ~connected

\* C15 (as claimed): when the session's handle is absent or its socket is
\* not OPEN at the moment onopen sends the handshake, the send raises an
\* error; the handshake is never dropped silently.
C15_SendFailsFast ==
    (last.op = "open" /\ (connection = 0 \/ sockets[connection].readyState # "OPEN")) =>
        last.error # ""

\* C16: the session constructs a WebSocket only inside a connect call, at
\* most one per call, so a step that emits 'connection_refused' from a
\* socket's error creates no socket.
C16_NoAutomaticRetry ==
    [][/\ Len(sockets') # Len(sockets) =>
              (last'.op = "connect" /\ Len(sockets') = Len(sockets) + 1)
       /\ last'.opened <= (IF last'.op \in {"connect", "connect_throws"} THEN 1 ELSE 0)
       /\ last'.op = "error" =>
              (Len(sockets') = Len(sockets) /\ connection' = connection)]_vars

C16_Witness ==
    /\ last.op = "error"
    /\ last.emits = <<"connection_refused">>
    /\ Len(sockets) = 1
    /\ Live = {}

\* C17: connect calls, socket opens, inbound frames and socket errors leave
\* the registry as it is: a listener keeps its place until on or off is
\* called.
C17_BusOutlivesReconnects ==
    [][last'.op \notin {"on", "off"} => events' = events]_vars

C17_Witness ==
    /\ last.op = "connect"
    /\ Len(sockets) = 2
    /\ sockets[1].failed # ""
    /\ listeners(events, "connection_refused") # <<>>

\* C19 (as claimed): every frame a socket carries is the handshake of the
\* connect call that created that socket.
C19_HandshakeOnOwnSocket ==
    \A t \in DOMAIN sockets : \A i \in 1..Len(sockets[t].sent) :
        sockets[t].sent[i] = Handshake(sockets[t].id, sockets[t].passwd)

\* C20 (as claimed): an error or an inbound message on a socket that is no
\* longer the session's handle does not reach the session: nothing is
\* emitted and onmessage does not run.
C20_SupersededSocketSilent ==
    (last.op \in {"error", "deliver"} /\ last.t # connection) =>
        /\ last.emits = <<>>
        /\ last.calls = <<>>
        /\ last.error = ""

\* C18: a click on the connect button with an id that does not consist of
\* one or more letters, or with an empty passwd, emits no connect_websocket
\* event, calls no connect, creates no socket and leaves the button's
\* 'connecting' class as it was; every connect call carries an id of letters
\* and a non-empty passwd.
LettersOnly(id) == Len(id) >= 1 /\ \A i \in 1..Len(id) : id[i] \in Letters
C18_FormValidatesBeforeConnect ==
    [][/\ (ui'.clicked /\ ~(LettersOnly(ui.id) /\ Len(ui.passwd) >= 1)) =>
              /\ ui'.emitted = <<>>
              /\ last'.op \notin {"connect", "connect_throws"}
              /\ last'.opened = 0
              /\ UNCHANGED <<sockets, connection, events>>
              /\ ui'.connecting = ui.connecting
       /\ last'.op \in {"connect", "connect_throws"} =>
              (LettersOnly(last'.id) /\ Len(last'.passwd) >= 1)]_vars

C18_Witness ==
    /\ ui.clicked
    /\ ui.id = <<"a", "1">>
    /\ ui.passwd = <<"p">>
    /\ ui.emitted = <<>>
    /\ ui.visible
    /\ ui.text = "Cet identifiant est invalide."

\* C21 (as claimed): when no listener raises, every callback that was
\* registered for the name when emit started and that no listener has
\* removed is invoked once per registration, also when a listener
\* unregisters itself during the emit.
C21_MutationDuringEmit ==
    (last.op = "emit" /\ last.error = "") =>
        \A cb \in Callbacks \ {"once"} : Count(last.calls, cb) = Count(last.before, cb)
====
